---- MODULE Spec2Model ----
(***************************************************************************)
(* Ares: the human checker (src/checkers/human_checker.rs), the SQLite     *)
(* knowledge store (src/storage/database.rs) and the decoders              *)
(* (src/decoders).                                                         *)
(*                                                                         *)
(* Strings of the checker and the store are sequences of one-character     *)
(* strings, so that concatenation, prefixes and JSON escaping are computed *)
(* character by character; texts of the decoders are sequences of code     *)
(* points, so that decoding is arithmetic.                                 *)
(***************************************************************************)
EXTENDS Integers, Sequences, FiniteSets, TLC

VARIABLES
    \* ---- process-wide state -------------------------------------------
    config,        \* the Config returned by get_config()
    SEEN_PROMPTS,  \* human_checker.rs:10, the DashSet of prompt keys
    timer_depth,   \* pause depth of the search timer (timer::pause/resume)
    DB_PATH,       \* database.rs:11, OnceLock<Option<PathBuf>>
    home_dir,      \* environment: does dirs::home_dir() return Some
    openable,      \* environment: does Connection::open(path) succeed
    files,         \* the SQLite database behind each path
    panicked,      \* the process aborted on a panic
    \* ---- one human_checker call per worker thread ---------------------
    pc,            \* where each worker stands in human_checker
    input,         \* the CheckResult the worker was called with
    reply,         \* the line read from stdin
    result,        \* line 40: reply.to_ascii_lowercase().starts_with('y')
    ret,           \* the value the call returned
    fd_result,     \* line 46: what insert_human_rejection returned
    events,        \* what the call has done so far: pause, prompt, reply, resume
    calls,         \* number of human_checker calls started
    \* ---- one store operation at a time (SpecStore) --------------------
    last_op,       \* the last store operation and what it returned
    \* ---- history -------------------------------------------------------
    answered_no,   \* (description, text) pairs the human has rejected
    prompts,       \* number of prompts displayed per (description, text)
    started_after_no, \* was the worker's pair already rejected when it was called
    inserted,      \* the inserts made into cache and failed_decodes, in call order
    \* ---- decoders (SpecDecoders) ---------------------------------------
    cracked,       \* what the last crack call did
    \* ---- one search (SpecSearch) ---------------------------------------
    search         \* the search under way: its queue, its seen set, its counts

vars == <<config, SEEN_PROMPTS, timer_depth, DB_PATH, home_dir, openable, files,
          panicked, pc, input, reply, result, ret, fd_result, events, calls, last_op,
          answered_no, prompts, started_after_no, inserted, cracked, search>>

hcVars == <<pc, input, reply, result, ret, fd_result, events, calls,
            answered_no, prompts, started_after_no>>

\* ---------------------------------------------------------------- bounds
NumWorkers == 2
MaxCalls == 3
MaxInserts == 3
MaxSteps == 100

\* ------------------------------------------------------------- constants
\* brainfuck_interpreter.rs:57, the least number of . a program has
MinPrints == 5
\* brainfuck_interpreter.rs:60, the least number of +-<>[] a program has
MinInstructions == 20

Workers == 1..NumWorkers

\* --------------------------------------------------------------- strings
LowerChar(c) ==
    CASE c = "Y" -> "y"
      [] c = "N" -> "n"
      [] c = "E" -> "e"
      [] c = "S" -> "s"
      [] OTHER -> c

\* str::to_ascii_lowercase
to_ascii_lowercase(s) == [i \in 1..Len(s) |-> LowerChar(s[i])]

\* Faulty variant of starts_with: the character anywhere in the string
contains_char(s, c) == \E i \in 1..Len(s) : s[i] = c

\* str::starts_with(char)
starts_with(s, c) == Len(s) > 0 /\ s[1] = c

\* ---------------------------------------------------------------- inputs
\* CheckResults handed to human_checker. The first two differ as pairs but
\* have the same concatenation description ++ text.
CheckResults ==
    { [description |-> <<"a">>,      text |-> <<"b", "c">>, checker_name |-> "Athena"],
      [description |-> <<"a", "b">>, text |-> <<"c">>,      checker_name |-> "English"],
      [description |-> <<"a">>,      text |-> <<"c">>,      checker_name |-> "Athena"] }

NoInput == [description |-> <<>>, text |-> <<>>, checker_name |-> "none"]

Pair(cr) == <<cr.description, cr.text>>

Pairs == { Pair(cr) : cr \in CheckResults }

\* Lines a human may type at the prompt
Replies == { <<>>, <<"y">>, <<"Y", "e", "s">>, <<"n", "y">> }

Timestamps == { "t1", "t2" }

\* ----------------------------------------------------------------- timer
\* timer::pause: one more pause is outstanding
timer_pause(depth) == depth + 1

\* timer::resume: one pause fewer; the clock runs again at depth 0
timer_resume(depth) == IF depth > 0 THEN depth - 1 ELSE 0

timer_paused == timer_depth > 0

\* ----------------------------------------------------------------- store
\* The database files: the one under the home directory and the shared
\* in-memory database of a test, which lives as long as the test holds a
\* connection to it
Paths == { "home", "test" }
Unset == "unset"

EmptyDatabase == [tables |-> FALSE, cache |-> <<>>, failed_decodes |-> <<>>]

\* get_database_path: $HOME/Ares/database.sqlite
get_database_path == "home"

\* get_db_connection: the database the connection is to, or an error.
\* An in-memory connection is a fresh, empty database of its own.
get_db_connection ==
    IF DB_PATH = Unset
    THEN [ok |-> TRUE, target |-> "memory"]
    ELSE IF openable \/ DB_PATH = "test"
         THEN [ok |-> TRUE, target |-> DB_PATH]
         ELSE [ok |-> FALSE, target |-> DB_PATH]

\* The database a connection reads and writes
Database(conn) ==
    IF conn.target = "memory" THEN EmptyDatabase ELSE files[conn.target]

\* The files after the connection's database became d: an in-memory
\* database is dropped with its connection.
Written(conn, d) ==
    IF conn.target = "memory" THEN files ELSE [files EXCEPT ![conn.target] = d]

\* Faulty variant of CreateTables: the tables are created anew
CreateTablesAnew(d) == [tables |-> TRUE, cache |-> <<>>, failed_decodes |-> <<>>]

\* init_database: CREATE TABLE IF NOT EXISTS for both tables
CreateTables(d) == [d EXCEPT !.tables = TRUE]

\* Faulty variant of InsertFailedDecodesRow: the id of the last row is used again
InsertFailedDecodesRowSameId(d, text, checker_name, ts) ==
    IF ~d.tables
    THEN d
    ELSE [d EXCEPT !.failed_decodes =
            Append(@, [id |-> IF Len(@) = 0 THEN 1 ELSE Len(@),
                       plaintext |-> text,
                       checker |-> checker_name, timestamp |-> ts])]

\* The INSERT of insert_failed_decodes: fails when the table is missing,
\* otherwise appends the row with the next AUTOINCREMENT id.
InsertFailedDecodesRow(d, text, checker_name, ts) ==
    IF ~d.tables
    THEN d
    ELSE [d EXCEPT !.failed_decodes =
            Append(@, [id |-> Len(@) + 1, plaintext |-> text,
                       checker |-> checker_name, timestamp |-> ts])]

\* insert_failed_decodes: Err when no connection opens; otherwise the
\* result of the INSERT is discarded and Ok(()) is returned.
insert_failed_decodes(text, check_result, ts) ==
    LET conn == get_db_connection IN
    IF ~conn.ok
    THEN [ok |-> FALSE, files |-> files]
    ELSE [ok |-> TRUE,
          files |-> Written(conn, InsertFailedDecodesRow(Database(conn), text,
                                        check_result.checker_name, ts))]

\* insert_human_rejection(uuid, text, check_result): records the rejection
\* as a row of failed_decodes.
insert_human_rejection(text, check_result, ts) ==
    insert_failed_decodes(text, check_result, ts)

\* ------------------------------------------------------------ cache rows
\* A CrackResult, as far as the store reads it: the decoder and the success flag
CrackResult(dec, ok) == [decoder |-> dec, success |-> ok]

\* CrackResult::get_json: the JSON object of the result, with its quotes
get_json(cr) ==
    [ok |-> TRUE,
     json |-> <<"{", "\"", cr.decoder, "\"", ":", IF cr.success THEN "1" ELSE "0", "}">>]

\* Texts the cache is asked about; TextZ is never an encoded_text of an entry
TextX == <<"X">>
TextY == <<"Y">>
TextZ == <<"Z">>
Texts == { TextX, TextY, TextZ }

\* CacheEntry values handed to insert_cache: two for the same encoded_text,
\* paths whose last result failed, and an empty path.
CacheEntries ==
    { [encoded_text |-> TextX, decoded_text |-> TextY,
       path |-> <<CrackResult("M", TRUE)>>, execution_time_ms |-> 100],
      [encoded_text |-> TextX, decoded_text |-> TextZ,
       path |-> <<CrackResult("M", FALSE), CrackResult("N", TRUE)>>,
       execution_time_ms |-> 250],
      [encoded_text |-> TextY, decoded_text |-> TextZ,
       path |-> <<CrackResult("N", TRUE), CrackResult("M", FALSE)>>,
       execution_time_ms |-> 100],
      [encoded_text |-> TextY, decoded_text |-> TextX,
       path |-> <<>>, execution_time_ms |-> 0] }

\* ------------------------------------------------------------ serde_json
RECURSIVE EscapeJson(_)
\* The characters of a JSON string body: quote and backslash are escaped
EscapeJson(s) ==
    IF s = <<>> THEN <<>>
    ELSE (IF Head(s) \in {"\"", "\\"} THEN <<"\\", Head(s)>> ELSE <<Head(s)>>)
            \o EscapeJson(Tail(s))

JsonString(s) == <<"\"">> \o EscapeJson(s) \o <<"\"">>

RECURSIVE JoinJson(_)
JoinJson(v) ==
    IF v = <<>> THEN <<>>
    ELSE IF Len(v) = 1 THEN JsonString(v[1])
    ELSE JsonString(v[1]) \o <<",">> \o JoinJson(Tail(v))

RECURSIVE JoinUnescaped(_)
JoinUnescaped(v) ==
    IF v = <<>> THEN <<>>
    ELSE IF Len(v) = 1 THEN <<"\"">> \o v[1] \o <<"\"">>
    ELSE <<"\"">> \o v[1] \o <<"\"">> \o <<",">> \o JoinUnescaped(Tail(v))

\* Faulty variant of to_string: the array written by hand, its strings not escaped
to_string_unescaped(v) == <<"[">> \o JoinUnescaped(v) \o <<"]">>

\* serde_json::to_string(&Vec<String>)
to_string(v) == <<"[">> \o JoinJson(v) \o <<"]">>

ParseError == [ok |-> FALSE, value |-> <<>>, next |-> 0]

RECURSIVE ParseString(_, _, _)
\* The JSON string whose body starts at j[i]: its value and the index after
\* the closing quote
ParseString(j, i, acc) ==
    IF i > Len(j) THEN ParseError
    ELSE IF j[i] = "\"" THEN [ok |-> TRUE, value |-> acc, next |-> i + 1]
    ELSE IF j[i] = "\\"
         THEN IF i + 1 <= Len(j) /\ j[i + 1] \in {"\"", "\\"}
              THEN ParseString(j, i + 2, Append(acc, j[i + 1]))
              ELSE ParseError
    ELSE ParseString(j, i + 1, Append(acc, j[i]))

RECURSIVE ParseElements(_, _, _)
\* The elements of a JSON array from j[i], which must open a string
ParseElements(j, i, acc) ==
    IF i > Len(j) \/ j[i] # "\"" THEN ParseError
    ELSE LET r == ParseString(j, i + 1, <<>>) IN
         IF ~r.ok \/ r.next > Len(j) THEN ParseError
         ELSE IF j[r.next] = "]"
              THEN IF r.next = Len(j)
                   THEN [ok |-> TRUE, value |-> Append(acc, r.value), next |-> r.next + 1]
                   ELSE ParseError
         ELSE IF j[r.next] = ","
              THEN ParseElements(j, r.next + 1, Append(acc, r.value))
              ELSE ParseError

\* serde_json::from_str::<Vec<String>>
from_str(j) ==
    IF Len(j) < 2 \/ j[1] # "[" THEN ParseError
    ELSE IF j[2] = "]"
         THEN IF Len(j) = 2 THEN [ok |-> TRUE, value |-> <<>>, next |-> 3] ELSE ParseError
    ELSE ParseElements(j, 2, <<>>)

\* ---------------------------------------------------------- insert_cache
\* lines 157-164: each CrackResult as JSON, the empty string when that fails
PathJson(path) ==
    [i \in 1..Len(path) |->
        IF get_json(path[i]).ok THEN get_json(path[i]).json ELSE <<>>]

\* Faulty variant of Successful: the flag of the first CrackResult
SuccessfulFirst(path) ==
    IF Len(path) = 0 THEN FALSE ELSE path[1].success

\* lines 166-175: the success flag of the last CrackResult. On an empty path
\* len() - 1 wraps around (no overflow checks) and get() finds nothing.
Successful(path) ==
    IF Len(path) = 0 THEN FALSE ELSE path[Len(path)].success

\* The INSERT of insert_cache: fails when the table is missing, otherwise
\* appends the row with the next AUTOINCREMENT id.
InsertCacheRow(d, entry, path_json, successful, ts) ==
    IF ~d.tables
    THEN d
    ELSE [d EXCEPT !.cache =
            Append(@, [id |-> Len(@) + 1,
                       encoded_text |-> entry.encoded_text,
                       decoded_text |-> entry.decoded_text,
                       path |-> path_json,
                       successful |-> successful,
                       execution_time_ms |-> entry.execution_time_ms,
                       timestamp |-> ts])]

None == [some |-> FALSE]
Some(v) == [some |-> TRUE, value |-> v]

\* insert_cache(cache_entry). With overflow checks (a debug build) the
\* subtraction len() - 1 panics on an empty path; a failed connection is an
\* Err; the result of the INSERT is discarded.
insert_cache(entry, ts, overflow_checks) ==
    /\ ~panicked
    /\ Len(inserted) < MaxInserts
    /\ IF Len(entry.path) = 0 /\ overflow_checks
       THEN /\ panicked' = TRUE
            /\ last_op' = [op |-> "insert_cache", arg |-> entry, ok |-> FALSE]
            /\ UNCHANGED <<files, inserted>>
       ELSE LET conn == get_db_connection IN
            /\ panicked' = FALSE
            /\ IF ~conn.ok
               THEN /\ files' = files
                    /\ last_op' = [op |-> "insert_cache", arg |-> entry,
                                   ok |-> FALSE]
               ELSE /\ files' = Written(conn,
                                   InsertCacheRow(Database(conn), entry,
                                                  to_string(PathJson(entry.path)),
                                                  Successful(entry.path), ts))
                    /\ last_op' = [op |-> "insert_cache", arg |-> entry,
                                   ok |-> TRUE]
            /\ inserted' = Append(inserted,
                              [table |-> "cache", entry |-> entry, ok |-> conn.ok,
                               stored |-> conn.ok /\ Database(conn).tables])
    /\ UNCHANGED <<config, SEEN_PROMPTS, timer_depth, DB_PATH, home_dir, openable>>
    /\ UNCHANGED <<hcVars, cracked, search>>

\* ------------------------------------------------------------ read_cache
\* Faulty variant of SelectCache: the lookup compares the decoded_text column
SelectCacheByDecoded(d, encoded_text) ==
    SelectSeq(d.cache, LAMBDA row : row.decoded_text = encoded_text)

\* Faulty variant of SelectCache: the matching rows come newest first
SelectCacheNewestFirst(d, encoded_text) ==
    LET rows == SelectSeq(d.cache, LAMBDA row : row.encoded_text = encoded_text)
    IN  [k \in 1..Len(rows) |-> rows[Len(rows) + 1 - k]]

\* The rows SELECT * FROM cache WHERE encoded_text IS $1 yields, in id order
SelectCache(d, encoded_text) ==
    SelectSeq(d.cache, LAMBDA row : row.encoded_text = encoded_text)

\* read_cache(encoded_text): Err when no connection opens or the table is
\* missing; None without a matching row; otherwise the first matching row,
\* its path parsed back from JSON (a path that does not parse panics).
read_cache(encoded_text) ==
    LET conn == get_db_connection IN
    IF ~conn.ok \/ ~Database(conn).tables
    THEN [status |-> "Err", value |-> None]
    ELSE LET rows == SelectCache(Database(conn), encoded_text) IN
         IF rows = <<>>
         THEN [status |-> "Ok", value |-> None]
         ELSE LET row == rows[1]
                  path == from_str(row.path)
              IN  IF ~path.ok
                  THEN [status |-> "panic", value |-> None]
                  ELSE [status |-> "Ok",
                        value |-> Some([id |-> row.id,
                                        encoded_text |-> row.encoded_text,
                                        decoded_text |-> row.decoded_text,
                                        path |-> path.value,
                                        successful |-> row.successful,
                                        execution_time_ms |-> row.execution_time_ms,
                                        timestamp |-> row.timestamp])]

\* A caller reads the cache
ReadCache(encoded_text) ==
    /\ ~panicked
    /\ LET r == read_cache(encoded_text) IN
       /\ panicked' = (r.status = "panic")
       /\ last_op' = [op |-> "read_cache", arg |-> encoded_text,
                      status |-> r.status, value |-> r.value]
    /\ UNCHANGED <<config, SEEN_PROMPTS, timer_depth, DB_PATH, home_dir, openable,
                   files, inserted>>
    /\ UNCHANGED <<hcVars, cracked, search>>

\* -------------------------------------------------------- failed_decodes
\* Plaintexts and checker names handed to insert_failed_decodes
FailedTexts == { TextX, TextY }
CheckerNames == { cr.checker_name : cr \in CheckResults }

\* A caller records a failed decode: insert_failed_decodes(text, check_result)
InsertFailedDecodes(text, check_result, ts) ==
    /\ ~panicked
    /\ Len(inserted) < MaxInserts
    /\ LET conn == get_db_connection
           r == insert_failed_decodes(text, check_result, ts)
       IN  /\ files' = r.files
           /\ last_op' = [op |-> "insert_failed_decodes", ok |-> r.ok]
           /\ inserted' = Append(inserted,
                             [table |-> "failed_decodes",
                              entry |-> [plaintext |-> text,
                                         checker |-> check_result.checker_name],
                              ok |-> r.ok,
                              stored |-> conn.ok /\ Database(conn).tables])
    /\ UNCHANGED <<config, SEEN_PROMPTS, timer_depth, DB_PATH, home_dir, openable,
                   panicked>>
    /\ UNCHANGED <<hcVars, cracked, search>>

\* Faulty variant of SelectFailedDecodes: every row matches
SelectFailedDecodesAll(d, plaintext) == d.failed_decodes

\* The rows SELECT * FROM failed_decodes WHERE plaintext IS $1 yields, in id order
SelectFailedDecodes(d, plaintext) ==
    SelectSeq(d.failed_decodes, LAMBDA row : row.plaintext = plaintext)

\* read_failed_decodes(plaintext): Err when no connection opens or the table
\* is missing; None without a matching row; otherwise the first matching row.
read_failed_decodes(plaintext) ==
    LET conn == get_db_connection IN
    IF ~conn.ok \/ ~Database(conn).tables
    THEN [status |-> "Err", value |-> None]
    ELSE LET rows == SelectFailedDecodes(Database(conn), plaintext) IN
         IF rows = <<>>
         THEN [status |-> "Ok", value |-> None]
         ELSE [status |-> "Ok", value |-> Some(rows[1])]

\* A caller looks a plaintext up in failed_decodes
ReadFailedDecodes(plaintext) ==
    /\ ~panicked
    /\ LET r == read_failed_decodes(plaintext) IN
       last_op' = [op |-> "read_failed_decodes", arg |-> plaintext,
                   status |-> r.status, value |-> r.value]
    /\ UNCHANGED <<config, SEEN_PROMPTS, timer_depth, DB_PATH, home_dir, openable,
                   files, panicked, inserted>>
    /\ UNCHANGED <<hcVars, cracked, search>>

\* ============================================================= decoders
\* A text handed to a decoder is the sequence of its Unicode code points.
\* The empty text
EmptyText == <<>>

\* base32 of "a"
Base32A ==
    << 77, 69, 61, 61, 61, 61, 61, 61 >>

\* base32 of "hello"
Base32Hello ==
    << 78, 66, 83, 87, 89, 51, 68, 80 >>

\* base32 of the byte 0x01
Base32Soh ==
    << 65, 69, 61, 61, 61, 61, 61, 61 >>

\* base32 with non-zero trailing bits
Base32Trailing ==
    << 77, 70, 61, 61, 61, 61, 61, 61 >>

\* no base32, base65536 or Brainfuck text
Lowercase ==
    << 104, 101, 108, 108, 111 >>

\* base91 of "hello world" (base91_decoder.rs:123)
Base91Hello ==
    << 84, 80, 119, 74, 104, 62, 73, 111, 50, 84, 118, 33, 108, 69 >>

\* one emoji (base91_decoder.rs:174)
Emoji ==
    << 128514 >>

\* base65536 of "Sphi" (base65536_decoder.rs:128)
Base65536Sphi ==
    << 74067, 40552 >>

\* base65536 of ".", a padding character
Base65536Dot ==
    << 5422 >>

\* base65536 with the padding character before the end
Base65536PadFirst ==
    << 5422, 40552 >>

\* Brainfuck printing "&&&&&"
BfPrints ==
    << 43, 43, 43, 43, 43, 43, 91, 62, 43, 43, 43, 43, 43, 43, 60, 45, 93,
       62, 43, 43, 46, 46, 46, 46, 46 >>

\* Brainfuck printing five control characters 0x14
BfControl ==
    << 43, 43, 43, 43, 43, 43, 43, 43, 43, 43, 43, 43, 43, 43, 43, 43, 43,
       43, 43, 43, 46, 46, 46, 46, 46 >>

\* Brainfuck with an unmatched bracket
BfUnmatched ==
    << 43, 43, 43, 43, 43, 43, 43, 43, 43, 43, 43, 43, 43, 43, 43, 43, 43,
       43, 43, 43, 91, 46, 46, 46, 46, 46 >>

\* Brainfuck with a read
BfReads ==
    << 43, 43, 43, 43, 43, 43, 43, 43, 43, 43, 43, 43, 43, 43, 43, 43, 43,
       43, 43, 43, 44, 46, 46, 46, 46, 46 >>

\* Brainfuck with 19 instructions
BfShort ==
    << 43, 43, 43, 43, 43, 43, 43, 43, 43, 43, 43, 43, 43, 43, 43, 43, 43,
       43, 43, 46, 46, 46, 46, 46 >>

\* Brainfuck with 4 prints
BfFourPrints ==
    << 43, 43, 43, 43, 43, 43, 43, 43, 43, 43, 43, 43, 43, 43, 43, 43, 43,
       43, 43, 43, 46, 46, 46, 46 >>

\* Brainfuck that does not end with a print
BfNoPrintAtEnd ==
    << 43, 43, 43, 43, 43, 43, 43, 43, 43, 43, 43, 43, 43, 43, 43, 43, 43,
       43, 43, 43, 46, 46, 46, 46, 46, 43 >>

\* Brainfuck with a loop that never ends
BfLoopsForever ==
    << 43, 43, 43, 43, 43, 43, 43, 43, 43, 43, 43, 43, 43, 43, 43, 43, 43,
       43, 91, 93, 46, 46, 46, 46, 46 >>

\* base32 of the bytes 74 9D F2 A7 D5 and base91 of the bytes 74 E6 A0 E2 8C
\* D8, which are both "t" and three U+FFFD as text
Base32Garbage ==
    << 79, 83, 79, 55, 70, 74, 54, 86 >>

\* Texts the decoders are tried on
CrackTexts ==
    { EmptyText, Base32A, Base32Hello, Base32Soh, Base32Garbage,
      Base32Trailing, Lowercase, Base91Hello, Emoji,
      Base65536Sphi, Base65536Dot, Base65536PadFirst, BfPrints,
      BfControl, BfUnmatched, BfReads, BfShort,
      BfFourPrints, BfNoPrintAtEnd, BfLoopsForever }

REPLACEMENT_CHARACTER == 65533

\* str::as_bytes of one character: its UTF-8 encoding
Utf8Encode(c) ==
    IF c < 128 THEN <<c>>
    ELSE IF c < 2048 THEN <<192 + (c \div 64), 128 + (c % 64)>>
    ELSE IF c < 65536
         THEN <<224 + (c \div 4096), 128 + ((c \div 64) % 64), 128 + (c % 64)>>
         ELSE <<240 + (c \div 262144), 128 + ((c \div 4096) % 64),
                128 + ((c \div 64) % 64), 128 + (c % 64)>>

RECURSIVE as_bytes(_)
\* str::as_bytes
as_bytes(text) ==
    IF text = <<>> THEN <<>> ELSE Utf8Encode(Head(text)) \o as_bytes(Tail(text))

\* Is bytes[i + k] a UTF-8 continuation byte
Continuation(bytes, i, k) == i + k <= Len(bytes) /\ bytes[i + k] \in 128..191

\* The number of bytes of the sequence a lead byte begins; 0 for a byte that
\* begins none
Utf8Width(b) ==
    IF b < 128 THEN 1
    ELSE IF b \in 194..223 THEN 2
    ELSE IF b \in 224..239 THEN 3
    ELSE IF b \in 240..244 THEN 4
    ELSE 0

\* The second bytes a lead byte admits: no overlong form, no surrogate,
\* nothing above U+10FFFF
SecondBytes(b) ==
    CASE b = 224 -> 160..191
      [] b = 237 -> 128..159
      [] b = 240 -> 144..191
      [] b = 244 -> 128..143
      [] OTHER -> 128..191

\* How many bytes from byte i on begin a well-formed sequence
Utf8Prefix(bytes, i) ==
    LET w == Utf8Width(bytes[i]) IN
    IF w <= 1 THEN w
    ELSE IF ~(i + 1 <= Len(bytes) /\ bytes[i + 1] \in SecondBytes(bytes[i])) THEN 1
    ELSE IF w = 2 THEN 2
    ELSE IF ~Continuation(bytes, i, 2) THEN 2
    ELSE IF w = 3 THEN 3
    ELSE IF ~Continuation(bytes, i, 3) THEN 3
    ELSE 4

\* The character of the well-formed sequence of w bytes at byte i
Utf8Char(bytes, i, w) ==
    CASE w = 1 -> bytes[i]
      [] w = 2 -> (bytes[i] - 192) * 64 + (bytes[i + 1] - 128)
      [] w = 3 -> (bytes[i] - 224) * 4096 + (bytes[i + 1] - 128) * 64
                     + (bytes[i + 2] - 128)
      [] w = 4 -> (bytes[i] - 240) * 262144 + (bytes[i + 1] - 128) * 4096
                     + (bytes[i + 2] - 128) * 64 + (bytes[i + 3] - 128)

RECURSIVE Utf8Decode(_, _, _, _)
\* The characters of a byte string, from byte i on: the longest beginning
\* of a sequence that is not completed becomes one U+FFFD, as does a byte
\* that begins no sequence, and makes the string invalid.
Utf8Decode(bytes, i, chars, valid) ==
    IF i > Len(bytes)
    THEN [chars |-> chars, valid |-> valid]
    ELSE LET w == Utf8Width(bytes[i])
             k == Utf8Prefix(bytes, i)
         IN  IF w > 0 /\ k = w
             THEN Utf8Decode(bytes, i + w, Append(chars, Utf8Char(bytes, i, w)), valid)
             ELSE Utf8Decode(bytes, IF k = 0 THEN i + 1 ELSE i + k,
                             Append(chars, REPLACEMENT_CHARACTER), FALSE)

\* String::from_utf8_lossy(bytes).to_string()
from_utf8_lossy(bytes) == Utf8Decode(bytes, 1, <<>>, TRUE).chars

\* String::from_utf8(bytes).unwrap_or_default(): the empty string when the
\* bytes are not UTF-8
from_utf8_or_default(bytes) ==
    LET r == Utf8Decode(bytes, 1, <<>>, TRUE) IN
    IF r.valid THEN r.chars ELSE <<>>

\* ---------------------------------------------------------------- base32
\* The value of a character of the RFC 4648 alphabet A-Z 2-7, or -1
Base32Value(b) ==
    IF b \in 65..90 THEN b - 65
    ELSE IF b \in 50..55 THEN b - 24
    ELSE -1

RECURSIVE Pow2(_)
Pow2(n) == IF n = 0 THEN 1 ELSE 2 * Pow2(n - 1)

\* The bits of the characters, five for each, most significant first
Base32Bits(symbols) ==
    [k \in 1..(5 * Len(symbols)) |->
        (Base32Value(symbols[((k - 1) \div 5) + 1]) \div Pow2(4 - ((k - 1) % 5))) % 2]

\* Byte j of a bit string
ByteOf(bits, j) ==
    bits[8 * j - 7] * 128 + bits[8 * j - 6] * 64 + bits[8 * j - 5] * 32
      + bits[8 * j - 4] * 16 + bits[8 * j - 3] * 8 + bits[8 * j - 2] * 4
      + bits[8 * j - 1] * 2 + bits[8 * j]

\* One block of eight characters: its data characters followed by =
\* padding, 0, 1, 3, 4 or 6 of them and only in the last block; the bits
\* beyond the last whole byte must be zero.
Base32Block(block, last) ==
    LET pad == Cardinality({ i \in 1..8 : \A j \in i..8 : block[j] = 61 })
        data == SubSeq(block, 1, 8 - pad)
        nbytes == ((8 - pad) * 5) \div 8
        bits == Base32Bits(data)
    IN  IF \/ pad \notin {0, 1, 3, 4, 6}
           \/ (pad > 0 /\ ~last)
           \/ \E i \in 1..(8 - pad) : Base32Value(data[i]) = -1
           \/ \E k \in (8 * nbytes + 1)..Len(bits) : bits[k] # 0
        THEN [ok |-> FALSE, bytes |-> <<>>]
        ELSE [ok |-> TRUE, bytes |-> [j \in 1..nbytes |-> ByteOf(bits, j)]]

RECURSIVE Base32Decode(_)
\* BASE32.decode: the bytes, or an error on a length that is no multiple of
\* eight, a character outside the alphabet, wrong padding or trailing bits
Base32Decode(bytes) ==
    IF bytes = <<>> THEN [ok |-> TRUE, bytes |-> <<>>]
    ELSE IF Len(bytes) < 8 THEN [ok |-> FALSE, bytes |-> <<>>]
    ELSE LET first == Base32Block(SubSeq(bytes, 1, 8), Len(bytes) = 8)
             rest == Base32Decode(SubSeq(bytes, 9, Len(bytes)))
         IN  IF first.ok /\ rest.ok
             THEN [ok |-> TRUE, bytes |-> first.bytes \o rest.bytes]
             ELSE [ok |-> FALSE, bytes |-> <<>>]

\* decode_base32_no_error_handling
decode_base32_no_error_handling(text) ==
    LET decoded_text == Base32Decode(as_bytes(text)) IN
    IF decoded_text.ok THEN Some(from_utf8_lossy(decoded_text.bytes)) ELSE None

\* ---------------------------------------------------------------- base91
\* The basE91 alphabet: A-Z a-z 0-9 and 29 punctuation characters
Base91Alphabet ==
    << 65, 66, 67, 68, 69, 70, 71, 72, 73, 74, 75, 76, 77, 78, 79, 80, 81,
       82, 83, 84, 85, 86, 87, 88, 89, 90, 97, 98, 99, 100, 101, 102, 103,
       104, 105, 106, 107, 108, 109, 110, 111, 112, 113, 114, 115, 116,
       117, 118, 119, 120, 121, 122, 48, 49, 50, 51, 52, 53, 54, 55, 56,
       57, 33, 35, 36, 37, 38, 40, 41, 42, 43, 44, 46, 47, 58, 59, 60, 61,
       62, 63, 64, 91, 93, 94, 95, 96, 123, 124, 125, 126, 34 >>

\* The value of a byte, 91 for a byte outside the alphabet
Base91Value(b) ==
    IF \E i \in 1..Len(Base91Alphabet) : Base91Alphabet[i] = b
    THEN (CHOOSE i \in 1..Len(Base91Alphabet) : Base91Alphabet[i] = b) - 1
    ELSE Len(Base91Alphabet)

RECURSIVE Base91Drain(_, _, _)
\* do { out.push(b as u8); b >>= 8; n -= 8 } while n > 7
Base91Drain(b, n, out) ==
    IF n - 8 > 7
    THEN Base91Drain(b \div 256, n - 8, Append(out, b % 256))
    ELSE [b |-> b \div 256, n |-> n - 8, out |-> Append(out, b % 256)]

RECURSIVE Base91Loop(_, _, _, _, _, _)
\* base91::slice_decode from byte i on: bytes outside the alphabet are
\* skipped, two values make 13 or 14 bits, a last single value one byte
Base91Loop(bytes, i, v, b, n, out) ==
    IF i > Len(bytes)
    THEN IF v # -1 THEN Append(out, (b + v * Pow2(n)) % 256) ELSE out
    ELSE IF Base91Value(bytes[i]) = Len(Base91Alphabet)
    THEN Base91Loop(bytes, i + 1, v, b, n, out)
    ELSE IF v = -1
    THEN Base91Loop(bytes, i + 1, Base91Value(bytes[i]), b, n, out)
    ELSE LET v2 == v + Base91Value(bytes[i]) * Len(Base91Alphabet)
             b2 == b + v2 * Pow2(n)
             n2 == n + (IF v2 % 8192 > 88 THEN 13 ELSE 14)
             d == Base91Drain(b2, n2, out)
         IN  Base91Loop(bytes, i + 1, -1, d.b, d.n, d.out)

\* decode_base91_no_error_handling: always Some
decode_base91_no_error_handling(text) ==
    Some(from_utf8_lossy(Base91Loop(as_bytes(text), 1, -1, 0, 0, <<>>)))

\* ------------------------------------------------------------- base65536
\* The blocks of 256 code points the texts drawn use: code point \div 256 of
\* the block, and the second byte every character of the block stands for
Base65536Blocks ==
    { <<85, 32>>, <<152, 99>>, <<156, 103>>, <<158, 105>>, <<163, 108>>,
      <<288, 111>>, <<289, 112>>, <<304, 114>>, <<307, 117>>, <<324, 118>>,
      <<325, 119>>, <<360, 120>>, <<361, 121>>, <<512, 122>> }

\* The block of the characters that stand for one last byte
Base65536PaddingBlock == 21

RECURSIVE Base65536Decode(_, _, _)
\* base65536::decode(text, false) from character i on: a character of a
\* block is two bytes, a padding character one byte and the last character;
\* any other character is an error.
Base65536Decode(text, i, out) ==
    IF i > Len(text) THEN [ok |-> TRUE, bytes |-> out]
    ELSE IF text[i] \div 256 = Base65536PaddingBlock
    THEN IF i = Len(text)
         THEN [ok |-> TRUE, bytes |-> Append(out, text[i] % 256)]
         ELSE [ok |-> FALSE, bytes |-> <<>>]
    ELSE IF \E blk \in Base65536Blocks : blk[1] = text[i] \div 256
    THEN LET blk == CHOOSE blk \in Base65536Blocks : blk[1] = text[i] \div 256
         IN  Base65536Decode(text, i + 1, out \o <<text[i] % 256, blk[2]>>)
    ELSE [ok |-> FALSE, bytes |-> <<>>]

\* decode_base65536_no_error_handling
decode_base65536_no_error_handling(text) ==
    LET decoded_text == Base65536Decode(text, 1, <<>>) IN
    IF decoded_text.ok THEN Some(from_utf8_lossy(decoded_text.bytes)) ELSE None

\* ------------------------------------------------------------- brainfuck
\* Number of characters of text that belong to set
CountIn(text, set) == Cardinality({ i \in 1..Len(text) : text[i] \in set })

\* The characters of "+-<>[]"
BrainfuckInstructions == {43, 45, 60, 62, 91, 93}

RECURSIVE BracketDepth(_, _, _)
\* The nesting depth after the program's last character, from character i on
\* at depth d; -1 as soon as a ] closes nothing
BracketDepth(prog, i, d) ==
    IF d < 0 \/ i > Len(prog) THEN d
    ELSE IF prog[i] = 91 THEN BracketDepth(prog, i + 1, d + 1)
    ELSE IF prog[i] = 93 THEN BracketDepth(prog, i + 1, d - 1)
    ELSE BracketDepth(prog, i + 1, d)

RECURSIVE MatchForward(_, _, _)
\* The ] that closes the [ at i, searched from a [ at depth d = 0
MatchForward(prog, i, d) ==
    IF prog[i] = 91 THEN MatchForward(prog, i + 1, d + 1)
    ELSE IF prog[i] = 93
         THEN IF d = 1 THEN i ELSE MatchForward(prog, i + 1, d - 1)
         ELSE MatchForward(prog, i + 1, d)

RECURSIVE MatchBackward(_, _, _)
\* The [ that opens the ] at i, searched from a ] at depth d = 0
MatchBackward(prog, i, d) ==
    IF prog[i] = 93 THEN MatchBackward(prog, i - 1, d + 1)
    ELSE IF prog[i] = 91
         THEN IF d = 1 THEN i ELSE MatchBackward(prog, i - 1, d - 1)
         ELSE MatchBackward(prog, i - 1, d)

\* The cell the pointer is at; a cell never written holds 0
Cell(tape, ptr) == IF ptr \in DOMAIN tape THEN tape[ptr] ELSE 0

\* The interpreter before the first instruction
BrainfuckStart == [ip |-> 1, ptr |-> 0, tape |-> <<>>, buf |-> <<>>, steps |-> 0]

\* One instruction: cells are bytes that wrap around, . writes the character
\* of the cell, any character that is no instruction is a comment
BrainfuckStep(prog, m) ==
    LET c == prog[m.ip]
        cell == Cell(m.tape, m.ptr)
        n == [m EXCEPT !.ip = @ + 1, !.steps = @ + 1]
    IN  CASE c = 43 -> [n EXCEPT !.tape = (m.ptr :> ((cell + 1) % 256)) @@ @]
          [] c = 45 -> [n EXCEPT !.tape = (m.ptr :> ((cell + 255) % 256)) @@ @]
          [] c = 62 -> [n EXCEPT !.ptr = @ + 1]
          [] c = 60 -> [n EXCEPT !.ptr = @ - 1]
          [] c = 46 -> [n EXCEPT !.buf = @ \o Utf8Encode(cell)]
          [] c = 91 /\ cell = 0 -> [n EXCEPT !.ip = MatchForward(prog, m.ip, 0) + 1]
          [] c = 93 /\ cell # 0 -> [n EXCEPT !.ip = MatchBackward(prog, m.ip, 0) + 1]
          [] OTHER -> n

\* The next instruction, if there is one
Advance(prog, m) == IF m.ip > Len(prog) THEN m ELSE BrainfuckStep(prog, m)

\* The next eight instructions, as far as there are any
Advance8(prog, m) ==
    LET m2 == Advance(prog, Advance(prog, m))
        m4 == Advance(prog, Advance(prog, m2))
        m6 == Advance(prog, Advance(prog, m4))
    IN  Advance(prog, Advance(prog, m6))

RECURSIVE BrainfuckRun(_, _)
\* The run from m on. A run that has not ended after MaxSteps instructions
\* never ends.
BrainfuckRun(prog, m) ==
    IF m.ip > Len(prog) THEN [status |-> "Ok", buf |-> m.buf]
    ELSE IF m.steps >= MaxSteps THEN [status |-> "diverges", buf |-> m.buf]
    ELSE BrainfuckRun(prog, Advance8(prog, m))

\* Brainfuck::new(text).with_output_ref(&mut buf).execute(): an Err on
\* brackets that do not match, otherwise the bytes written
execute(text) ==
    IF BracketDepth(text, 1, 0) # 0
    THEN [status |-> "Err", buf |-> <<>>]
    ELSE BrainfuckRun(text, BrainfuckStart)

\* ---------------------------------------------------------------- crack
\* A character that is not printable: a control character
NonPrintable(c) == c < 32 \/ c \in 127..159

\* check_string_success(decoded_text, original_text): false for a decoded
\* text that is empty, identical to the original or entirely non-printable
check_string_success(decoded_text, original_text) ==
    /\ decoded_text # <<>>
    /\ decoded_text # original_text
    /\ \E i \in 1..Len(decoded_text) : ~NonPrintable(decoded_text[i])

\* Checkers a decoder is handed: one that identifies every text as
\* plaintext and one that identifies none
Checkers == { [name |-> "accepts", is_identified |-> TRUE],
              [name |-> "rejects", is_identified |-> FALSE] }

\* checker.check(text)
check(checker, text) ==
    [is_identified |-> checker.is_identified, text |-> text,
     checker_name |-> checker.name]

\* CrackResult::new(decoder, text)
CrackResult_new(decoder, text) ==
    [decoder |-> decoder, encrypted_text |-> text, unencrypted_text |-> None,
     success |-> FALSE, checker_name |-> ""]

\* CrackResult::update_checker(checker_result)
update_checker(results, checker_result) ==
    [results EXCEPT !.success = checker_result.is_identified,
                    !.checker_name = checker_result.checker_name]

\* What a crack call did: the CrackResult it returned, the texts it handed
\* to the checker and whether it ran the interpreter; a call that never
\* returns has returned = FALSE
Returned(results, checked) ==
    [returned |-> TRUE, results |-> results, checked |-> checked, ran |-> FALSE]

\* The same after Brainfuck::execute has been called
Interpreted(outcome) == [outcome EXCEPT !.ran = TRUE]

\* Faulty variant of base32_crack: the checker's verdict is not recorded
base32_crack_no_update(text, checker) ==
    LET decoded_text == decode_base32_no_error_handling(text)
        results == CrackResult_new("base32", text)
    IN  IF ~decoded_text.some
        THEN Returned(results, <<>>)
        ELSE IF ~check_string_success(decoded_text.value, text)
        THEN Returned(results, <<>>)
        ELSE Returned([results EXCEPT !.unencrypted_text = Some(decoded_text.value)],
                      <<decoded_text.value>>)

\* Decoder<Base32Decoder>::crack
base32_crack(text, checker) ==
    LET decoded_text == decode_base32_no_error_handling(text)
        results == CrackResult_new("base32", text)
    IN  IF ~decoded_text.some
        THEN Returned(results, <<>>)
        ELSE IF ~check_string_success(decoded_text.value, text)
        THEN Returned(results, <<>>)
        ELSE LET checker_result == check(checker, decoded_text.value) IN
             Returned(update_checker(
                          [results EXCEPT !.unencrypted_text = Some(decoded_text.value)],
                          checker_result),
                      <<decoded_text.value>>)

\* Faulty variant of base91_crack: check_string_success is not asked
base91_crack_unchecked(text, checker) ==
    LET decoded_text == decode_base91_no_error_handling(text)
        results == CrackResult_new("Base91", text)
    IN  IF ~decoded_text.some
        THEN Returned(results, <<>>)
        ELSE LET checker_result == check(checker, decoded_text.value) IN
             Returned(update_checker(
                          [results EXCEPT
                              !.unencrypted_text = Some(<<decoded_text.value>>)],
                          checker_result),
                      <<decoded_text.value>>)

\* Decoder<Base91Decoder>::crack
base91_crack(text, checker) ==
    LET decoded_text == decode_base91_no_error_handling(text)
        results == CrackResult_new("Base91", text)
    IN  IF ~decoded_text.some
        THEN Returned(results, <<>>)
        ELSE IF ~check_string_success(decoded_text.value, text)
        THEN Returned(results, <<>>)
        ELSE LET checker_result == check(checker, decoded_text.value) IN
             Returned(update_checker(
                          [results EXCEPT
                              !.unencrypted_text = Some(<<decoded_text.value>>)],
                          checker_result),
                      <<decoded_text.value>>)

\* Decoder<Base65536Decoder>::crack
base65536_crack(text, checker) ==
    LET decoded_text == decode_base65536_no_error_handling(text)
        results == CrackResult_new("Base65536", text)
    IN  IF ~decoded_text.some
        THEN Returned(results, <<>>)
        ELSE IF ~check_string_success(decoded_text.value, text)
        THEN Returned(results, <<>>)
        ELSE LET checker_result == check(checker, decoded_text.value) IN
             Returned(update_checker(
                          [results EXCEPT
                              !.unencrypted_text = Some(<<decoded_text.value>>)],
                          checker_result),
                      <<decoded_text.value>>)

\* Faulty variant of brainfuck_crack: the thresholds are exclusive
brainfuck_crack_exclusive(text, checker) ==
    LET results == CrackResult_new("Brainfuck", text) IN
    IF 44 \in { text[i] : i \in 1..Len(text) }
    THEN Returned(results, <<>>)
    ELSE IF \/ text = <<>>
            \/ text[Len(text)] # 46
            \/ CountIn(text, {46}) <= MinPrints
    THEN Returned(results, <<>>)
    ELSE IF CountIn(text, BrainfuckInstructions) <= MinInstructions
    THEN Returned(results, <<>>)
    ELSE LET run == execute(text) IN
         IF run.status = "diverges"
         THEN [returned |-> FALSE, results |-> results, checked |-> <<>>,
               ran |-> TRUE]
         ELSE IF run.status = "Ok"
         THEN LET decoded_text == from_utf8_or_default(run.buf)
                  checker_result == check(checker, decoded_text)
              IN  Interpreted(Returned(update_checker(
                               [results EXCEPT
                                   !.unencrypted_text = Some(<<decoded_text>>)],
                               checker_result),
                           <<decoded_text>>))
         ELSE Interpreted(Returned(results, <<>>))

\* Decoder<BrainfuckInterpreter>::crack
brainfuck_crack(text, checker) ==
    LET results == CrackResult_new("Brainfuck", text) IN
    IF 44 \in { text[i] : i \in 1..Len(text) }
    THEN Returned(results, <<>>)
    ELSE IF \/ text = <<>>
            \/ text[Len(text)] # 46
            \/ CountIn(text, {46}) < MinPrints
    THEN Returned(results, <<>>)
    ELSE IF CountIn(text, BrainfuckInstructions) < MinInstructions
    THEN Returned(results, <<>>)
    ELSE LET run == execute(text) IN
         IF run.status = "diverges"
         THEN [returned |-> FALSE, results |-> results, checked |-> <<>>,
               ran |-> TRUE]
         ELSE IF run.status = "Ok"
         THEN LET decoded_text == from_utf8_or_default(run.buf)
                  checker_result == check(checker, decoded_text)
              IN  Interpreted(Returned(update_checker(
                               [results EXCEPT
                                   !.unencrypted_text = Some(<<decoded_text>>)],
                               checker_result),
                           <<decoded_text>>))
         ELSE Interpreted(Returned(results, <<>>))

\* The decoders of the registry
Decoders == { "base32", "Base91", "Base65536", "Brainfuck" }

\* decoder.crack(text, checker)
crack(decoder, text, checker) ==
    CASE decoder = "base32" -> base32_crack(text, checker)
      [] decoder = "Base91" -> base91_crack(text, checker)
      [] decoder = "Base65536" -> base65536_crack(text, checker)
      [] decoder = "Brainfuck" -> brainfuck_crack(text, checker)

\* No crack call has been made yet
NoCrack == [returned |-> FALSE, results |-> CrackResult_new("none", <<>>),
            checked |-> <<>>, ran |-> FALSE]

\* A caller tries a decoder on a text
Crack(decoder, text, checker) ==
    /\ ~panicked
    /\ cracked' = crack(decoder, text, checker)
    /\ last_op' = [op |-> "crack", decoder |-> decoder, text |-> text,
                   checker |-> checker]
    /\ UNCHANGED <<config, SEEN_PROMPTS, timer_depth, DB_PATH, home_dir, openable,
                   files, panicked, inserted, search>>
    /\ UNCHANGED hcVars

\* The candidates of a CrackResult: Base32 hands back one text, the other
\* decoders a list of texts
Candidates(results) ==
    IF ~results.unencrypted_text.some THEN {}
    ELSE IF results.decoder = "base32" THEN { results.unencrypted_text.value }
    ELSE { results.unencrypted_text.value[k] :
              k \in 1..Len(results.unencrypted_text.value) }

\* The same in the order the decoder lists them
CandidateList(results) ==
    IF ~results.unencrypted_text.some THEN <<>>
    ELSE IF results.decoder = "base32" THEN << results.unencrypted_text.value >>
    ELSE results.unencrypted_text.value

\* ---------------------------------------------------------------- search
\* Texts a search is started on
SearchRoots == { Base32Garbage, Base32Hello, Base91Hello, BfPrints, BfLoopsForever }

\* No search has been started
NoSearch ==
    [state |-> "none", checker |-> "none", seen |-> {}, queue |-> <<>>,
     tried |-> {}, checks |-> 0, generated |-> {}]

\* The search begins: the root is enqueued and seen
StartSearch(root, checker) ==
    /\ ~panicked
    /\ search.state = "none"
    /\ search' = [state |-> "running", checker |-> checker, seen |-> {root},
                  queue |-> <<root>>, tried |-> {}, checks |-> 0,
                  generated |-> {}]
    /\ UNCHANGED <<config, SEEN_PROMPTS, timer_depth, DB_PATH, home_dir, openable,
                   files, panicked, last_op, inserted, cracked>>
    /\ UNCHANGED hcVars

\* One pass of the inner loop: the next decoder is tried on the node at the
\* head of the queue. crack asks the checker about what it decoded; a
\* candidate already seen is skipped, an identified one is shown to the
\* human, who accepts it and ends the search or turns it down, any other is
\* enqueued. A crack call that never returns leaves the search blocked.
Attempt(decoder, human) ==
    /\ ~panicked
    /\ search.state = "running"
    /\ search.queue # <<>>
    /\ decoder \notin search.tried
    /\ LET text == Head(search.queue)
           outcome == crack(decoder, text, search.checker)
           fresh == Candidates(outcome.results) \ search.seen
           counted == [search EXCEPT
                          !.tried = @ \cup {decoder},
                          !.checks = @ + Len(outcome.checked),
                          !.generated = @ \cup Candidates(outcome.results),
                          !.seen = @ \cup fresh]
       IN  /\ cracked' = outcome
           /\ last_op' = [op |-> "crack", decoder |-> decoder, text |-> text,
                          checker |-> search.checker]
           /\ search' =
                 IF ~outcome.returned
                 THEN [search EXCEPT !.state = "blocked"]
                 ELSE IF fresh = {} THEN counted
                 ELSE IF outcome.results.success
                 THEN IF human THEN [counted EXCEPT !.state = "found"]
                      ELSE counted
                 ELSE [counted EXCEPT
                          !.queue = @ \o SelectSeq(CandidateList(outcome.results),
                                                    LAMBDA c : c \in fresh)]
    /\ UNCHANGED <<config, SEEN_PROMPTS, timer_depth, DB_PATH, home_dir, openable,
                   files, panicked, inserted>>
    /\ UNCHANGED hcVars

\* Every decoder has been tried on the node: it leaves the queue, and the
\* search fails as exhausted when the queue is empty
NextNode ==
    /\ ~panicked
    /\ search.state = "running"
    /\ search.queue # <<>>
    /\ search.tried = Decoders
    /\ search' = [search EXCEPT
                     !.queue = Tail(@),
                     !.tried = {},
                     !.state = IF Tail(search.queue) = <<>> THEN "exhausted"
                               ELSE "running"]
    /\ UNCHANGED <<config, SEEN_PROMPTS, timer_depth, DB_PATH, home_dir, openable,
                   files, panicked, last_op, inserted, cracked>>
    /\ UNCHANGED hcVars

\* ---------------------------------------------------------------- Init
Init ==
    /\ config \in [human_checker_on : BOOLEAN, api_mode : BOOLEAN]
    /\ SEEN_PROMPTS = {}
    /\ timer_depth = 0
    /\ DB_PATH = Unset
    /\ home_dir \in BOOLEAN
    /\ openable \in BOOLEAN
    /\ files = [p \in Paths |-> EmptyDatabase]
    /\ panicked = FALSE
    /\ pc = [w \in Workers |-> "idle"]
    /\ input = [w \in Workers |-> NoInput]
    /\ reply = [w \in Workers |-> <<>>]
    /\ result = [w \in Workers |-> FALSE]
    /\ ret = [w \in Workers |-> FALSE]
    /\ fd_result = [w \in Workers |-> "none"]
    /\ events = [w \in Workers |-> <<>>]
    /\ calls = 0
    /\ last_op = [op |-> "none"]
    /\ answered_no = {}
    /\ prompts = [p \in Pairs |-> 0]
    /\ started_after_no = [w \in Workers |-> FALSE]
    /\ inserted = <<>>
    /\ cracked = NoCrack
    /\ search = NoSearch

\* ------------------------------------------------------- setup_database
\* setup_database: panics without a home directory; DB_PATH.set keeps the
\* first value; then init_database creates the tables.
setup_database ==
    /\ ~panicked
    /\ IF ~home_dir
       THEN /\ panicked' = TRUE
            /\ UNCHANGED <<DB_PATH, files, last_op>>
       ELSE /\ panicked' = FALSE
            /\ DB_PATH' = IF DB_PATH = Unset THEN get_database_path ELSE DB_PATH
            /\ IF openable \/ DB_PATH' = "test"
               THEN /\ files' = [files EXCEPT ![DB_PATH'] = CreateTables(@)]
                    /\ last_op' = [op |-> "setup_database", ok |-> TRUE]
               ELSE /\ files' = files
                    /\ last_op' = [op |-> "setup_database", ok |-> FALSE]
    /\ UNCHANGED <<config, SEEN_PROMPTS, timer_depth, home_dir, openable, inserted>>
    /\ UNCHANGED <<hcVars, cracked, search>>

\* set_test_db_path: DB_PATH.set(Some(path)) with the path of a test's
\* shared in-memory database; a set after the first changes nothing
set_test_db_path ==
    /\ ~panicked
    /\ DB_PATH' = IF DB_PATH = Unset THEN "test" ELSE DB_PATH
    /\ last_op' = [op |-> "set_test_db_path"]
    /\ UNCHANGED <<config, SEEN_PROMPTS, timer_depth, home_dir, openable, files,
                   panicked, inserted>>
    /\ UNCHANGED <<hcVars, cracked, search>>

\* init_database on its own: Err when no connection opens; otherwise both
\* tables are created, if absent, in the database of the connection.
init_database ==
    /\ ~panicked
    /\ LET conn == get_db_connection IN
       IF ~conn.ok
       THEN /\ files' = files
            /\ last_op' = [op |-> "init_database", ok |-> FALSE]
       ELSE /\ files' = Written(conn, CreateTables(Database(conn)))
            /\ last_op' = [op |-> "init_database", ok |-> TRUE]
    /\ UNCHANGED <<config, SEEN_PROMPTS, timer_depth, DB_PATH, home_dir, openable,
                   panicked, inserted>>
    /\ UNCHANGED <<hcVars, cracked, search>>

\* -------------------------------------------------------- human_checker
\* A worker thread calls human_checker(input)
HumanCheckerCall(w, cr) ==
    /\ ~panicked
    /\ pc[w] \in {"idle", "returned"}
    /\ calls < MaxCalls
    /\ calls' = calls + 1
    /\ pc' = [pc EXCEPT ![w] = "line22"]
    /\ input' = [input EXCEPT ![w] = cr]
    /\ reply' = [reply EXCEPT ![w] = <<>>]
    /\ result' = [result EXCEPT ![w] = FALSE]
    /\ ret' = [ret EXCEPT ![w] = FALSE]
    /\ fd_result' = [fd_result EXCEPT ![w] = "none"]
    /\ events' = [events EXCEPT ![w] = <<>>]
    /\ started_after_no' = [started_after_no EXCEPT ![w] = Pair(cr) \in answered_no]
    /\ UNCHANGED <<config, SEEN_PROMPTS, timer_depth, DB_PATH, home_dir, openable,
                   files, panicked, last_op, answered_no, prompts, inserted,
                   cracked, search>>

\* line 22: timer::pause()
TimerPause(w) ==
    /\ ~panicked
    /\ pc[w] = "line22"
    /\ timer_depth' = timer_pause(timer_depth)
    /\ events' = [events EXCEPT ![w] = Append(@, "pause")]
    /\ pc' = [pc EXCEPT ![w] = "line24"]
    /\ UNCHANGED <<config, SEEN_PROMPTS, DB_PATH, home_dir, openable, files, panicked,
                   input, reply, result, ret, fd_result, calls, last_op, answered_no,
                   prompts, started_after_no, inserted,
                   cracked, search>>

\* Faulty variant of ConfigCheck: the early return taken only when both options say so
ConfigCheckBothOptions(w) ==
    /\ ~panicked
    /\ pc[w] = "line24"
    /\ IF ~config.human_checker_on /\ config.api_mode
       THEN /\ timer_depth' = timer_resume(timer_depth)
            /\ events' = [events EXCEPT ![w] = Append(@, "resume")]
            /\ ret' = [ret EXCEPT ![w] = TRUE]
            /\ pc' = [pc EXCEPT ![w] = "returned"]
       ELSE /\ pc' = [pc EXCEPT ![w] = "line32"]
            /\ UNCHANGED <<timer_depth, events, ret>>
    /\ UNCHANGED <<config, SEEN_PROMPTS, DB_PATH, home_dir, openable, files, panicked,
                   input, reply, result, fd_result, calls, last_op, answered_no,
                   prompts, started_after_no, inserted,
                   cracked, search>>

\* lines 24-29: without prompting, resume the timer and return true
ConfigCheck(w) ==
    /\ ~panicked
    /\ pc[w] = "line24"
    /\ IF ~config.human_checker_on \/ config.api_mode
       THEN /\ timer_depth' = timer_resume(timer_depth)
            /\ events' = [events EXCEPT ![w] = Append(@, "resume")]
            /\ ret' = [ret EXCEPT ![w] = TRUE]
            /\ pc' = [pc EXCEPT ![w] = "returned"]
       ELSE /\ pc' = [pc EXCEPT ![w] = "line32"]
            /\ UNCHANGED <<timer_depth, events, ret>>
    /\ UNCHANGED <<config, SEEN_PROMPTS, DB_PATH, home_dir, openable, files, panicked,
                   input, reply, result, fd_result, calls, last_op, answered_no,
                   prompts, started_after_no, inserted,
                   cracked, search>>

\* line 32: format!("{}{}", input.description, input.text)
prompt_key(cr) == cr.description \o cr.text

\* Faulty variant of SeenInsert: the answer of DashSet::insert is not looked at
SeenInsertUnchecked(w) ==
    /\ ~panicked
    /\ pc[w] = "line32"
    /\ SEEN_PROMPTS' = SEEN_PROMPTS \cup {prompt_key(input[w])}
    /\ pc' = [pc EXCEPT ![w] = "line36"]
    /\ UNCHANGED <<config, timer_depth, DB_PATH, home_dir, openable, files, panicked,
                   input, reply, result, ret, fd_result, events, calls, last_op,
                   answered_no, prompts, started_after_no, inserted,
                   cracked, search>>

\* lines 32-35: DashSet::insert is atomic and tells whether the key was new;
\* a key seen before returns true at once.
SeenInsert(w) ==
    /\ ~panicked
    /\ pc[w] = "line32"
    /\ SEEN_PROMPTS' = SEEN_PROMPTS \cup {prompt_key(input[w])}
    /\ IF prompt_key(input[w]) \in SEEN_PROMPTS
       THEN /\ ret' = [ret EXCEPT ![w] = TRUE]
            /\ pc' = [pc EXCEPT ![w] = "returned"]
       ELSE /\ pc' = [pc EXCEPT ![w] = "line36"]
            /\ UNCHANGED ret
    /\ UNCHANGED <<config, timer_depth, DB_PATH, home_dir, openable, files, panicked,
                   input, reply, result, fd_result, events, calls, last_op,
                   answered_no, prompts, started_after_no, inserted,
                   cracked, search>>

\* Faulty variant of ShowPrompt: the timer is resumed as soon as the prompt is shown
ShowPromptThenResume(w) ==
    /\ ~panicked
    /\ pc[w] = "line36"
    /\ events' = [events EXCEPT ![w] = Append(Append(@, "prompt"), "resume")]
    /\ timer_depth' = timer_resume(timer_depth)
    /\ prompts' = [prompts EXCEPT ![Pair(input[w])] = @ + 1]
    /\ pc' = [pc EXCEPT ![w] = "line38"]
    /\ UNCHANGED <<config, SEEN_PROMPTS, DB_PATH, home_dir, openable,
                   files, panicked, input, reply, result, ret, fd_result, calls,
                   last_op, answered_no, started_after_no, inserted,
                   cracked, search>>

\* line 36: human_checker_check displays the prompt
ShowPrompt(w) ==
    /\ ~panicked
    /\ pc[w] = "line36"
    /\ events' = [events EXCEPT ![w] = Append(@, "prompt")]
    /\ prompts' = [prompts EXCEPT ![Pair(input[w])] = @ + 1]
    /\ pc' = [pc EXCEPT ![w] = "line38"]
    /\ UNCHANGED <<config, SEEN_PROMPTS, timer_depth, DB_PATH, home_dir, openable,
                   files, panicked, input, reply, result, ret, fd_result, calls,
                   last_op, answered_no, started_after_no, inserted,
                   cracked, search>>

\* lines 38-40: read the reply; it is a yes when it starts with y or Y
ReadReply(w, line) ==
    /\ ~panicked
    /\ pc[w] = "line38"
    /\ reply' = [reply EXCEPT ![w] = line]
    /\ result' = [result EXCEPT ![w] = starts_with(to_ascii_lowercase(line), "y")]
    /\ events' = [events EXCEPT ![w] = Append(@, "reply")]
    /\ answered_no' = IF result'[w] THEN answered_no
                      ELSE answered_no \cup {Pair(input[w])}
    /\ pc' = [pc EXCEPT ![w] = "line41"]
    /\ UNCHANGED <<config, SEEN_PROMPTS, timer_depth, DB_PATH, home_dir, openable,
                   files, panicked, input, ret, fd_result, calls, last_op, prompts,
                   started_after_no, inserted,
                   cracked, search>>

\* line 41: timer::resume()
TimerResume(w) ==
    /\ ~panicked
    /\ pc[w] = "line41"
    /\ timer_depth' = timer_resume(timer_depth)
    /\ events' = [events EXCEPT ![w] = Append(@, "resume")]
    /\ pc' = [pc EXCEPT ![w] = "line45"]
    /\ UNCHANGED <<config, SEEN_PROMPTS, DB_PATH, home_dir, openable, files, panicked,
                   input, reply, result, ret, fd_result, calls, last_op, answered_no,
                   prompts, started_after_no, inserted,
                   cracked, search>>

\* Faulty variant of RecordResult: the answer is written to the store whatever it is
RecordResultAlwaysWrites(w, ts) ==
    /\ ~panicked
    /\ pc[w] = "line45"
    /\ LET fd == insert_human_rejection(input[w].text, input[w], ts) IN
       /\ files' = fd.files
       /\ fd_result' = [fd_result EXCEPT ![w] = IF fd.ok THEN "Ok" ELSE "Err"]
    /\ ret' = [ret EXCEPT ![w] = result[w]]
    /\ pc' = [pc EXCEPT ![w] = "returned"]
    /\ UNCHANGED <<config, SEEN_PROMPTS, timer_depth, DB_PATH, home_dir, openable,
                   panicked, input, reply, result, events, calls, last_op,
                   answered_no, prompts, started_after_no, inserted,
                   cracked, search>>

\* lines 45-58: a no is written to the store, whose error is only logged,
\* and the call returns the answer.
RecordResult(w, ts) ==
    /\ ~panicked
    /\ pc[w] = "line45"
    /\ IF ~result[w]
       THEN LET fd == insert_human_rejection(input[w].text, input[w], ts) IN
            /\ files' = fd.files
            /\ fd_result' = [fd_result EXCEPT ![w] = IF fd.ok THEN "Ok" ELSE "Err"]
            /\ ret' = [ret EXCEPT ![w] = FALSE]
       ELSE /\ files' = files
            /\ fd_result' = fd_result
            /\ ret' = [ret EXCEPT ![w] = TRUE]
    /\ pc' = [pc EXCEPT ![w] = "returned"]
    /\ UNCHANGED <<config, SEEN_PROMPTS, timer_depth, DB_PATH, home_dir, openable,
                   panicked, input, reply, result, events, calls, last_op,
                   answered_no, prompts, started_after_no, inserted,
                   cracked, search>>

\* ----------------------------------------------------------------- Spec
Next ==
    \/ setup_database
    \/ \E w \in Workers, cr \in CheckResults : HumanCheckerCall(w, cr)
    \/ \E w \in Workers : TimerPause(w)
    \/ \E w \in Workers : ConfigCheck(w)
    \/ \E w \in Workers : SeenInsert(w)
    \/ \E w \in Workers : ShowPrompt(w)
    \/ \E w \in Workers, line \in Replies : ReadReply(w, line)
    \/ \E w \in Workers : TimerResume(w)
    \/ \E w \in Workers, ts \in Timestamps : RecordResult(w, ts)

Spec == Init /\ [][Next]_vars

\* The store on its own: one caller, one operation at a time
InitStore ==
    /\ Init
    /\ config = [human_checker_on |-> FALSE, api_mode |-> FALSE]

NextStore ==
    \/ setup_database
    \/ \E e \in CacheEntries, ts \in Timestamps, oc \in BOOLEAN : insert_cache(e, ts, oc)
    \/ \E x \in Texts : ReadCache(x)

SpecStore == InitStore /\ [][NextStore]_vars

\* The failed_decodes table on its own
NextFailed ==
    \/ setup_database
    \/ init_database
    \/ \E p \in FailedTexts, cr \in CheckResults, ts \in Timestamps :
          InsertFailedDecodes(p, cr, ts)
    \/ \E p \in Texts : ReadFailedDecodes(p)

SpecFailed == InitStore /\ [][NextFailed]_vars

\* Setup and the writes to both tables
NextTables ==
    \/ setup_database
    \/ init_database
    \/ \E e \in CacheEntries, ts \in Timestamps, oc \in BOOLEAN : insert_cache(e, ts, oc)
    \/ \E p \in FailedTexts, cr \in CheckResults, ts \in Timestamps :
          InsertFailedDecodes(p, cr, ts)

SpecTables == InitStore /\ [][NextTables]_vars

\* The decoders on their own: one crack call at a time
NextDecoders ==
    \E decoder \in Decoders, text \in CrackTexts, checker \in Checkers :
        Crack(decoder, text, checker)

SpecDecoders == InitStore /\ [][NextDecoders]_vars

\* One search over the decoders
NextSearch ==
    \/ \E root \in SearchRoots, checker \in Checkers : StartSearch(root, checker)
    \/ \E decoder \in Decoders, human \in BOOLEAN : Attempt(decoder, human)
    \/ NextNode

SpecSearch == InitStore /\ [][NextSearch]_vars

\* The database path: setup_database and a test's set_test_db_path in any
\* order, and store operations in between
NextPath ==
    \/ setup_database
    \/ set_test_db_path
    \/ init_database
    \/ \E p \in FailedTexts, cr \in CheckResults, ts \in Timestamps :
          InsertFailedDecodes(p, cr, ts)
    \/ \E x \in Texts : ReadFailedDecodes(x)

SpecPath == InitStore /\ [][NextPath]_vars

\* ======================================================= human checker
PromptingEnabled == config.human_checker_on /\ ~config.api_mode

\* Number of times event e occurs in the call's events
Count(evs, e) == Cardinality({ i \in 1..Len(evs) : evs[i] = e })

Prompted(w) == \E i \in 1..Len(events[w]) : events[w][i] = "prompt"

IsPrefix(s, t) == Len(s) <= Len(t) /\ \A i \in 1..Len(s) : s[i] = t[i]

\* The rows of failed_decodes in the database file
FailedDecodesTable == files[get_database_path].failed_decodes

\* C1: with prompting enabled, a human_checker call started after the human
\* answered no for its (description, text) never returns true.
C1_FailedDecodeRespect ==
    \A w \in Workers :
        (PromptingEnabled /\ pc[w] = "returned" /\ started_after_no[w])
            => ret[w] = FALSE

\* C2: every (description, text) pair is prompted for at most once,
\* whatever the interleaving of the workers.
C2_PromptedAtMostOnce == \A p \in Pairs : prompts[p] <= 1

\* C2 witness: a call returned without prompting because another call had
\* already prompted for the same pair.
C2_Witness ==
    \E w \in Workers :
        /\ PromptingEnabled
        /\ pc[w] = "returned"
        /\ ~Prompted(w)
        /\ prompts[Pair(input[w])] = 1

\* C3: a call that prompts has paused the timer before the prompt, does not
\* resume it between the prompt and the reply, and resumes it after the reply;
\* the timer is paused as long as the prompt is unanswered.
C3_TimerPausedDuringPrompt ==
    \A w \in Workers :
        /\ Prompted(w) => IsPrefix(events[w], <<"pause", "prompt", "reply", "resume">>)
        /\ pc[w] = "line38" => (Prompted(w) /\ timer_paused)
        /\ (Prompted(w) /\ pc[w] = "returned")
              => events[w] = <<"pause", "prompt", "reply", "resume">>

\* C3 witness: a call that prompted and was answered has returned.
C3_Witness ==
    \E w \in Workers : Prompted(w) /\ pc[w] = "returned" /\ timer_depth = 0

\* C4: every call that returned has resumed the timer as often as it paused it.
C4_PauseResumeBalanced ==
    \A w \in Workers :
        pc[w] = "returned" => Count(events[w], "pause") = Count(events[w], "resume")

StoreWritable == get_db_connection.ok /\ Database(get_db_connection).tables

C6_ReturnsReply ==
    /\ [](\A w \in Workers :
            (Prompted(w) /\ pc[w] = "returned")
               => ret[w] = (reply[w] # <<>> /\ reply[w][1] \in {"y", "Y"}))
    /\ [][\A w \in Workers :
            (pc[w] = "line45" /\ pc'[w] # pc[w] /\ ~result[w])
               => (pc'[w] = "returned" /\ ret'[w] = FALSE /\ ~panicked')]_vars

\* C6 witness: the empty reply returned false although the write was an error.
C6_Witness ==
    \E w \in Workers :
        /\ Prompted(w) /\ pc[w] = "returned"
        /\ reply[w] = <<>>
        /\ fd_result[w] = "Err"
        /\ ret[w] = FALSE
        /\ ~panicked

\* C7: without prompting, no step of human_checker changes the seen prompts
\* or the store or shows a prompt, and the call returns true.
C7_NoPromptingFrame ==
    [][~PromptingEnabled =>
         \A w \in Workers :
            pc'[w] # pc[w] =>
               /\ SEEN_PROMPTS' = SEEN_PROMPTS
               /\ files' = files
               /\ prompts' = prompts
               /\ pc'[w] \in {"line22", "line24", "returned"}
               /\ pc'[w] = "returned" => ret'[w] = TRUE]_vars

\* C7 witness: a call returned true with prompting disabled.
C7_Witness ==
    \E w \in Workers :
        ~PromptingEnabled /\ pc[w] = "returned" /\ ret[w] = TRUE /\ ~Prompted(w)

\* C8: while a prompt of one worker is unanswered, no call of another worker
\* returns true.
C8_NoFinalizeDuringPrompt ==
    [][\A w \in Workers, o \in Workers :
          (o # w /\ pc[o] = "line38" /\ pc[w] # "returned" /\ pc'[w] = "returned")
             => ret'[w] = FALSE]_vars

\* =============================================================== cache
\* The cache rows of the database file
CacheTable == files[get_database_path].cache

\* What read_cache must return for entry e: Some(row) with e's texts and
\* time and the JSON of each CrackResult of e's path, in order
ReadsBack(e) ==
    LET r == read_cache(e.encoded_text) IN
    /\ r.status = "Ok"
    /\ r.value.some
    /\ r.value.value.encoded_text = e.encoded_text
    /\ r.value.value.decoded_text = e.decoded_text
    /\ r.value.value.execution_time_ms = e.execution_time_ms
    /\ Len(r.value.value.path) = Len(e.path)
    /\ \A k \in 1..Len(e.path) : r.value.value.path[k] = get_json(e.path[k]).json

\* insert_cache call i stored its row: a path was configured, the connection
\* opened and the tables were there
StoredCache(i) == inserted[i].table = "cache" /\ inserted[i].stored

\* C9 as stated: after insert_cache(e) on a configured database with its
\* tables, read_cache(e.encoded_text) returns e's row.
C9_CacheRoundTrip ==
    \A i \in 1..Len(inserted) : StoredCache(i) => ReadsBack(inserted[i].entry)

\* Call i is the first stored insert_cache for its encoded_text
FirstForText(i) ==
    \A j \in 1..(i - 1) :
        StoredCache(j) => inserted[j].entry.encoded_text # inserted[i].entry.encoded_text

\* C9 amended: after insert_cache(e) on a configured database with its
\* tables, read_cache(e.encoded_text) returns the row of the first entry
\* stored with that encoded_text: e's own row when none was stored before.
C9_CacheRoundTripFirst ==
    \A i \in 1..Len(inserted) :
        StoredCache(i) =>
            \E j \in 1..i :
                /\ StoredCache(j) /\ FirstForText(j)
                /\ inserted[j].entry.encoded_text = inserted[i].entry.encoded_text
                /\ ReadsBack(inserted[j].entry)

\* C9 witness: read_cache has returned the row of an entry with a path of
\* two results, from a table of at least two rows.
C9_Witness ==
    /\ last_op.op = "read_cache"
    /\ last_op.status = "Ok"
    /\ last_op.value.some
    /\ Len(CacheTable) >= 2
    /\ \E i \in 1..Len(inserted) :
          /\ StoredCache(i) /\ FirstForText(i)
          /\ inserted[i].entry.encoded_text = last_op.arg
          /\ Len(inserted[i].entry.path) = 2
          /\ last_op.value.value.decoded_text = inserted[i].entry.decoded_text
          /\ last_op.value.value.path
                = [k \in 1..2 |-> get_json(inserted[i].entry.path[k]).json]

\* No insert_cache call was given x as encoded_text
NeverInserted(x) ==
    \A i \in 1..Len(inserted) :
        inserted[i].table = "cache" => inserted[i].entry.encoded_text # x

\* C10 as stated: read_cache(x) is Ok(None) for every x never inserted.
C10_ReadMiss ==
    \A x \in Texts :
        NeverInserted(x) => read_cache(x) = [status |-> "Ok", value |-> None]

\* C10 amended: when a connection opens on a database that has the cache
\* table, read_cache(x) is Ok(None) for every x never inserted as an
\* encoded_text, whatever rows the table holds.
C10_ReadMissWithTable ==
    \A x \in Texts :
        (StoreWritable /\ NeverInserted(x))
            => read_cache(x) = [status |-> "Ok", value |-> None]

\* C10 witness: read_cache has missed on a table that holds rows for other
\* texts, one of them with the asked text as its decoded_text.
C10_Witness ==
    /\ last_op.op = "read_cache"
    /\ last_op.status = "Ok"
    /\ ~last_op.value.some
    /\ NeverInserted(last_op.arg)
    /\ \E k \in 1..Len(CacheTable) : CacheTable[k].decoded_text = last_op.arg

\* The rows of the cache table whose encoded_text is x
RowsFor(x) == { k \in 1..Len(CacheTable) : CacheTable[k].encoded_text = x }

\* The row read_cache(x) hands back, as the table holds it
ReadRow(x) == SelectCache(Database(get_db_connection), x)[1]

\* C11: a read_cache(x) that returns a row returns the oldest row of the
\* table whose encoded_text is x, read_cache(x) returns a row whenever the
\* table holds one for x, and once it does, every further setup, read and
\* insert leaves the connection, the table and that oldest row as they are:
\* read_cache(x) keeps returning the same row.
C11_CachedLookupStable ==
    /\ [](\A x \in Texts :
            /\ (StoreWritable /\ RowsFor(x) # {})
                  => (read_cache(x).status = "Ok" /\ read_cache(x).value.some)
            /\ read_cache(x).value.some =>
                  /\ StoreWritable
                  /\ read_cache(x).value.value.id \in RowsFor(x)
                  /\ \A k \in RowsFor(x) : read_cache(x).value.value.id <= k
                  /\ read_cache(x).value.value.id = ReadRow(x).id
                  /\ read_cache(x).value.value.decoded_text = ReadRow(x).decoded_text
                  /\ read_cache(x).value.value.path = from_str(ReadRow(x).path).value)
    /\ [][\A x \in Texts :
             read_cache(x).value.some =>
                /\ StoreWritable'
                /\ RowsFor(x) \subseteq RowsFor(x)'
                /\ ReadRow(x)' = ReadRow(x)]_vars

\* C11 witness: read_cache(x) has returned the first of two rows stored for x.
C11_Witness ==
    /\ last_op.op = "read_cache"
    /\ last_op.status = "Ok"
    /\ last_op.value.some
    /\ Cardinality(RowsFor(last_op.arg)) >= 2
    /\ last_op.value.value.id = 1
    /\ read_cache(last_op.arg).value = last_op.value

\* ====================================================== failed_decodes
\* insert_failed_decodes call i recorded plaintext p: its INSERT added a row
StoredFailed(i, p) ==
    /\ inserted[i].table = "failed_decodes"
    /\ inserted[i].stored
    /\ inserted[i].entry.plaintext = p

\* C12: read_failed_decodes(p) returns Some(row) exactly when an earlier
\* insert_failed_decodes recorded p (its INSERT added a row); the row has
\* plaintext p and the checker_name given at the first such insert, so a row
\* for another plaintext never matches.
C12_ReadFailedDecodes ==
    \A p \in Texts :
        LET r == read_failed_decodes(p) IN
        /\ r.value.some <=> \E i \in 1..Len(inserted) : StoredFailed(i, p)
        /\ r.value.some =>
              /\ r.status = "Ok"
              /\ r.value.value.plaintext = p
              /\ \E i \in 1..Len(inserted) :
                    /\ StoredFailed(i, p)
                    /\ \A j \in 1..(i - 1) : ~StoredFailed(j, p)
                    /\ r.value.value.checker = inserted[i].entry.checker

\* C12 witness: read_failed_decodes(p) has returned the row of p from a table
\* whose first row is for another plaintext.
C12_Witness ==
    /\ last_op.op = "read_failed_decodes"
    /\ last_op.status = "Ok"
    /\ last_op.value.some
    /\ last_op.value.value.plaintext = last_op.arg
    /\ last_op.value.value.id > 1
    /\ FailedDecodesTable[1].plaintext # last_op.arg

\* C13: for every plaintext p and checker c with a rejection of p under c
\* stored in failed_decodes, the lookup for p exposes a row with checker c,
\* also after p was rejected under other checkers.
C13_RejectionsPerChecker ==
    \A i \in 1..Len(inserted) :
        \A p \in FailedTexts :
            StoredFailed(i, p) =>
                /\ read_failed_decodes(p).value.some
                /\ read_failed_decodes(p).value.value.checker = inserted[i].entry.checker

\* ================================================================ store
\* C14: with no database path set, the tables init_database created are
\* there for every later read, and a row written right after by insert_cache
\* or insert_failed_decodes is returned by the lookup for its text.
C14_InMemoryFallback ==
    /\ []((DB_PATH = Unset /\ last_op.op = "init_database" /\ last_op.ok) =>
            \A x \in Texts :
                /\ read_cache(x).status = "Ok"
                /\ read_failed_decodes(x).status = "Ok")
    /\ [][(DB_PATH = Unset /\ last_op.op = "init_database" /\ last_op.ok
             /\ Len(inserted') = Len(inserted) + 1 /\ last_op'.ok) =>
                \A x \in Texts :
                    LET w == inserted'[Len(inserted')] IN
                    /\ (w.table = "cache" /\ w.entry.encoded_text = x)
                          => read_cache(x)'.value.some
                    /\ (w.table = "failed_decodes" /\ w.entry.plaintext = x)
                          => read_failed_decodes(x)'.value.some]_vars

\* C15: no store operation (setup_database, init_database, insert_cache,
\* insert_failed_decodes, read_cache, read_failed_decodes) aborts the
\* process: every failure is a returned Err or an ignored result.
C15_DatabaseErrorsNonFatal == ~panicked

\* C16: whenever a connection can be opened, insert_cache and
\* insert_failed_decodes return Ok(()) whether or not the INSERT succeeded,
\* and an INSERT that fails (the table is missing) leaves both tables as they
\* were. A step that panics although the home directory exists is an
\* insert_cache call.
C16_InsertsDiscardResult ==
    [][/\ (get_db_connection.ok /\ Len(inserted') = Len(inserted) + 1) =>
             /\ last_op'.ok
             /\ ~Database(get_db_connection).tables => files' = files
       /\ (get_db_connection.ok /\ home_dir /\ ~panicked) => ~panicked']_vars

\* A step of setup_database or init_database that returned
SetupStep ==
    /\ last_op'.op \in {"setup_database", "init_database"}
    /\ inserted' = inserted
    /\ ~panicked'

\* The rows of both tables are what they were
RowsUnchanged ==
    \A f \in Paths :
        /\ files'[f].cache = files[f].cache
        /\ files'[f].failed_decodes = files[f].failed_decodes

StoredInto(table) == SelectSeq(inserted, LAMBDA w : w.table = table /\ w.stored)

\* C18: the k-th successful insert into a table made the row with id k, the
\* table holds the rows in insertion order, and a later write only appends:
\* ids increase strictly and are never used again.
C18_IdsFollowInsertionOrder ==
    /\ [](/\ Len(CacheTable) = Len(StoredInto("cache"))
          /\ \A k \in 1..Len(CacheTable) :
                /\ CacheTable[k].id = k
                /\ CacheTable[k].encoded_text = StoredInto("cache")[k].entry.encoded_text
                /\ CacheTable[k].decoded_text = StoredInto("cache")[k].entry.decoded_text
          /\ Len(FailedDecodesTable) = Len(StoredInto("failed_decodes"))
          /\ \A k \in 1..Len(FailedDecodesTable) :
                /\ FailedDecodesTable[k].id = k
                /\ FailedDecodesTable[k].plaintext
                      = StoredInto("failed_decodes")[k].entry.plaintext
                /\ FailedDecodesTable[k].checker
                      = StoredInto("failed_decodes")[k].entry.checker)
    /\ [][/\ IsPrefix(CacheTable, CacheTable')
          /\ IsPrefix(FailedDecodesTable, FailedDecodesTable')]_vars

\* C18 witness: after an insert that stored nothing, an insert into cache
\* and an insert into failed_decodes have each stored the row with id 1.
C18_Witness ==
    /\ Len(inserted) = 3
    /\ ~inserted[1].stored
    /\ Len(CacheTable) = 1 /\ CacheTable[1].id = 1
    /\ Len(FailedDecodesTable) = 1 /\ FailedDecodesTable[1].id = 1
    /\ last_op.op \in {"insert_cache", "insert_failed_decodes"}

\* ============================================================= decoders
\* What the decoder makes of the text before any check: the decoded text, or
\* None when the text cannot be decoded or interpreted
RawDecode(decoder, text) ==
    CASE decoder = "base32" -> decode_base32_no_error_handling(text)
      [] decoder = "Base91" -> decode_base91_no_error_handling(text)
      [] decoder = "Base65536" -> decode_base65536_no_error_handling(text)
      [] decoder = "Brainfuck" ->
            IF execute(text).status = "Ok"
            THEN Some(from_utf8_or_default(execute(text).buf))
            ELSE None

\* C19: a crack call of Base32, Base91, Base65536 or Brainfuck whose raw
\* decode fails, or whose decoded text check_string_success rejects, returns
\* unencrypted_text = None and success = false and has not consulted the
\* checker.
C19_DecoderReject ==
    (cracked.returned /\ cracked.results.decoder \in Decoders) =>
        LET text == cracked.results.encrypted_text
            raw == RawDecode(cracked.results.decoder, text)
        IN  (~raw.some \/ ~check_string_success(raw.value, text)) =>
                /\ cracked.results.unencrypted_text = None
                /\ ~cracked.results.success
                /\ cracked.checked = <<>>

C21_SuccessIffIdentified ==
    (last_op.op = "crack" /\ cracked.returned) =>
        /\ cracked.results.success =
              (/\ cracked.results.unencrypted_text.some
               /\ \A candidate \in Candidates(cracked.results) :
                     check(last_op.checker, candidate).is_identified)
        /\ cracked.results.success =>
              { cracked.checked[k] : k \in 1..Len(cracked.checked) }
                  = Candidates(cracked.results)
        /\ cracked.results.encrypted_text = last_op.text
        /\ cracked.results.decoder = last_op.decoder

\* C21 witness: Base32 has decoded "NBSWY3DP", the checker identified "hello"
\* and the result says success.
C21_Witness ==
    /\ last_op.op = "crack"
    /\ last_op.decoder = "base32"
    /\ last_op.text = Base32Hello
    /\ last_op.checker.is_identified
    /\ cracked.returned
    /\ cracked.results.success
    /\ cracked.results.unencrypted_text = Some(Lowercase)

\* C22: every crack call completes: whatever decoder and text it was given,
\* the call has returned a CrackResult.
C22_CrackCompletes ==
    (last_op.op = "crack") => cracked.returned

\* C23: a Brainfuck crack call runs the interpreter exactly when the text
\* holds no ',', ends with '.', holds at least 5 '.' and at least 20
\* characters of "+-<>[]"; in every other case it returns unencrypted_text =
\* None and has run neither the interpreter nor the checker.
C23_BrainfuckGuard ==
    (last_op.op = "crack" /\ last_op.decoder = "Brainfuck") =>
        LET text == last_op.text
            passes == /\ ~contains_char(text, 44)
                      /\ text # <<>> /\ text[Len(text)] = 46
                      /\ CountIn(text, {46}) >= 5
                      /\ CountIn(text, {43, 45, 60, 62, 91, 93}) >= 20
        IN  /\ cracked.ran = passes
            /\ ~passes => /\ cracked.returned
                          /\ cracked.results.unencrypted_text = None
                          /\ cracked.checked = <<>>

\* C23 witness: a program of exactly 20 instruction characters and exactly
\* 5 '.' has passed the guard and the interpreter has run it.
C23_Witness ==
    /\ last_op.op = "crack"
    /\ last_op.decoder = "Brainfuck"
    /\ CountIn(last_op.text, {46}) = 5
    /\ CountIn(last_op.text, {43, 45, 60, 62, 91, 93}) = 20
    /\ cracked.ran
    /\ cracked.returned
    /\ cracked.results.unencrypted_text.some

\* C24: at every point of a search the checker has been invoked at most as
\* many times as there are distinct candidate texts generated so far.
C24_Dedup ==
    search.checks <= Cardinality(search.generated)

\* C25: the successful column of every cache row is the success flag of the
\* last CrackResult of the path of the entry insert_cache stored there,
\* whatever the flags of the earlier CrackResults and the decoded_text.
C25_SuccessfulIsLast ==
    /\ Len(CacheTable) = Len(StoredInto("cache"))
    /\ \A k \in 1..Len(CacheTable) :
          LET path == StoredInto("cache")[k].entry.path IN
          Len(path) > 0 => CacheTable[k].successful = path[Len(path)].success

\* C25 witness: insert_cache has stored a row with successful = true for a
\* path whose first result failed, and a row with successful = false for a
\* path whose first result succeeded.
C25_Witness ==
    /\ last_op.op = "insert_cache"
    /\ \E k \in 1..Len(CacheTable) :
          LET path == StoredInto("cache")[k].entry.path IN
          /\ Len(path) = 2 /\ ~path[1].success /\ path[2].success
          /\ CacheTable[k].successful
    /\ \E k \in 1..Len(CacheTable) :
          LET path == StoredInto("cache")[k].entry.path IN
          /\ Len(path) = 2 /\ path[1].success /\ ~path[2].success
          /\ ~CacheTable[k].successful

\* C26: an insert_cache call on an entry with an empty path completes, and
\* on a database that opens and has its tables it appends a row with
\* successful = false and path = "[]".
C26_EmptyPathInsert ==
    [][(/\ last_op'.op = "insert_cache"
        /\ last_op'.arg.path = <<>>
        /\ (last_op' # last_op \/ inserted' # inserted)) =>
            /\ ~panicked'
            /\ Len(inserted') = Len(inserted) + 1
            /\ StoreWritable =>
                  /\ Len(CacheTable') = Len(CacheTable) + 1
                  /\ ~CacheTable'[Len(CacheTable')].successful
                  /\ CacheTable'[Len(CacheTable')].path = <<"[", "]">>]_vars

\* C27: with prompting enabled, a call returns without prompting only when
\* its very (description, text) pair has been prompted for, or is about to
\* be prompted for by the call that entered it into SEEN_PROMPTS; a pair with
\* the same concatenation description + text does not count.
C27_SkipOnlySamePair ==
    \A w \in Workers :
        (PromptingEnabled /\ pc[w] = "returned" /\ ~Prompted(w)) =>
            \/ prompts[Pair(input[w])] >= 1
            \/ \E v \in Workers \ {w} :
                  /\ Pair(input[v]) = Pair(input[w])
                  /\ pc[v] = "line36"

\* C28: once DB_PATH is set it never changes, whatever sets it again; a later
\* setup_database call returns; every store operation opens its connection
\* at DB_PATH and leaves every other database as it was.
C28_PathWriteOnce ==
    /\ [](DB_PATH # Unset => get_db_connection.target = DB_PATH)
    /\ [][DB_PATH # Unset =>
             /\ DB_PATH' = DB_PATH
             /\ ~panicked'
             /\ \A f \in Paths \ {DB_PATH} : files'[f] = files[f]]_vars

====
